---- MODULE Spec2Model ----
(***************************************************************************)
(* Smart Tourist Safety System (nodenest11/sih_backend).                   *)
(*                                                                         *)
(* The store is modelled as four append-only tables (tourists, locations,  *)
(* ai_assessments, alerts); one action per request handler.  Coordinates   *)
(* are points of a small integer grid, scores are integers, anomaly scores *)
(* are kept in tenths (0.3 is 3).                                          *)
(*                                                                         *)
(* The repository holds three generations of the service, each with its    *)
(* own specification over the same tables:                                 *)
(*   Spec        main.py, the standalone server;                           *)
(*   SpecApp     the app package: its endpoints, the alert endpoints and   *)
(*               the AI engine service that assesses locations in the      *)
(*               background;                                               *)
(*   SpecScorer  the fusion scorer of the ai_ml pipeline, a pure function  *)
(*               applied to inputs drawn by its initial condition.         *)
(* The training side has its own specifications:                           *)
(*   SpecTraining  the training loop of main.py and its force endpoint     *)
(*               (SpecTrainingLive adds the fairness of the event loop);   *)
(*   SpecPipeline  the detectors and the feature cache of the ai_ml        *)
(*               pipeline object;                                          *)
(*   SpecEngine  the startup retrain and the training loop of the AI       *)
(*               engine service;                                           *)
(*   SpecRouters registration in the routers package, one thread per       *)
(*               request.                                                  *)
(***************************************************************************)
EXTENDS Integers, Sequences, FiniteSets, TLC

VARIABLES tourists, locations, ai_assessments, alerts, resp, requests,
          background_tasks, models, fused,
          ai_training_status, training_task,
          pipeline, outcome, engine, in_flight

\* The state of the training loop of main.py.
trainingVars == <<ai_training_status, training_task>>

\* The state outside the tables and the engine: no request handler of the
\* three servers reads or writes it.
\* The ai_ml pipeline object and the result of the last call on it.
pipelineVars == <<pipeline, outcome>>

\* The training coroutines of the AI engine service.
engineVars == <<engine>>

\* The registration requests of the routers package that a worker thread
\* is serving.
routerVars == <<in_flight>>

aiVars == <<trainingVars, pipelineVars, engineVars, routerVars>>

vars == <<tourists, locations, ai_assessments, alerts, resp, requests,
          background_tasks, models, fused, aiVars>>

(***************************************************************************)
(* Bounds of the model.                                                    *)
(***************************************************************************)
MaxTourists == 2
MaxRequests == 4
MaxSafeHours == 2

\* An optional request field that was left out (Python None).
None == -1

\* Request inputs: grid points <<latitude, longitude>> and speeds.
Points == {<<0, 0>>, <<1, 1>>, <<3, 3>>, <<0, 3>>}
Speeds == {None, 0, 30, 90}
AlertPoints == {<<0, 0>>, <<1, 1>>}
SosPoints == {<<0, 0>>}
Contacts == {"c1", "c2"}
\* Requests name a registered tourist or the first unregistered id.
TouristIds == 1..(Len(tourists) + 1)

(***************************************************************************)
(* Zone tables (restricted_zones, safe_zones).  A zone carries a GeoJSON   *)
(* ring of <<lon, lat>> pairs.  The tables are seeded outside the request  *)
(* handlers and are only read by them.                                     *)
(***************************************************************************)
restricted_zones ==
    << [name |-> "R1", coordinates |-> <<(<<1, 1>>), (<<2, 1>>), (<<2, 2>>), (<<1, 2>>)>>,
        danger_level |-> 1, is_active |-> TRUE],
       [name |-> "R2", coordinates |-> <<(<<2, 2>>), (<<3, 2>>), (<<3, 3>>), (<<2, 3>>)>>,
        danger_level |-> 5, is_active |-> TRUE],
       [name |-> "R3", coordinates |-> <<(<<3, 0>>), (<<3, 0>>)>>,
        danger_level |-> 3, is_active |-> FALSE] >>

safe_zones ==
    << [name |-> "S1", coordinates |-> <<(<<0, 0>>), (<<1, 0>>), (<<1, 1>>), (<<0, 1>>)>>,
        safety_rating |-> 5, is_active |-> TRUE] >>

SetMin(S) == CHOOSE x \in S : \A y \in S : x <= y
SetMax(S) == CHOOSE x \in S : \A y \in S : x >= y

\* main.py:211-218 / 231-237: bounding box of the first ring.
InBoundingBox(coords, latitude, longitude) ==
    /\ Len(coords) > 0
    /\ LET lats == {coords[i][2] : i \in DOMAIN coords}
           lons == {coords[i][1] : i \in DOMAIN coords}
       IN  /\ SetMin(lats) <= latitude /\ latitude <= SetMax(lats)
           /\ SetMin(lons) <= longitude /\ longitude <= SetMax(lons)

\* .eq("is_active", True)
ActiveZones(table) == SelectSeq(table, LAMBDA z : z.is_active)

\* Index of the first zone of a list that contains the point, 0 if none.
FirstMatch(zones, latitude, longitude) ==
    LET hits == {i \in DOMAIN zones : InBoundingBox(zones[i].coordinates, latitude, longitude)}
    IN  IF hits = {} THEN 0 ELSE SetMin(hits)

NoZone == ""

Rows(table) == {table[i] : i \in DOMAIN table}

\* Containment in some active zone of a table, whatever the lookup order.
InSomeActiveZone(table, latitude, longitude) ==
    \E i \in DOMAIN table :
        /\ table[i].is_active
        /\ InBoundingBox(table[i].coordinates, latitude, longitude)

\* check_geofence with the two lookups in the opposite order.
check_geofence_safe_first(latitude, longitude) ==
    LET rz == ActiveZones(restricted_zones)
        sz == ActiveZones(safe_zones)
        r  == FirstMatch(rz, latitude, longitude)
        s  == FirstMatch(sz, latitude, longitude)
    IN  IF s # 0
        THEN [in_restricted_zone |-> FALSE, in_safe_zone |-> TRUE, in_unknown_area |-> FALSE,
              zone_name |-> sz[s].name, danger_level |-> 0,
              safety_rating |-> sz[s].safety_rating, geofence_alert |-> FALSE]
        ELSE IF r # 0
        THEN [in_restricted_zone |-> TRUE, in_safe_zone |-> FALSE, in_unknown_area |-> FALSE,
              zone_name |-> rz[r].name, danger_level |-> rz[r].danger_level,
              safety_rating |-> 0, geofence_alert |-> TRUE]
        ELSE [in_restricted_zone |-> FALSE, in_safe_zone |-> FALSE, in_unknown_area |-> TRUE,
              zone_name |-> NoZone, danger_level |-> 0,
              safety_rating |-> 0, geofence_alert |-> FALSE]

\* main.py check_geofence
check_geofence(latitude, longitude) ==
    LET rz == ActiveZones(restricted_zones)
        sz == ActiveZones(safe_zones)
        r  == FirstMatch(rz, latitude, longitude)
        s  == FirstMatch(sz, latitude, longitude)
    IN  IF r # 0
        THEN [in_restricted_zone |-> TRUE, in_safe_zone |-> FALSE, in_unknown_area |-> FALSE,
              zone_name |-> rz[r].name, danger_level |-> rz[r].danger_level,
              safety_rating |-> 0, geofence_alert |-> TRUE]
        ELSE IF s # 0
        THEN [in_restricted_zone |-> FALSE, in_safe_zone |-> TRUE, in_unknown_area |-> FALSE,
              zone_name |-> sz[s].name, danger_level |-> 0,
              safety_rating |-> sz[s].safety_rating, geofence_alert |-> FALSE]
        ELSE [in_restricted_zone |-> FALSE, in_safe_zone |-> FALSE, in_unknown_area |-> TRUE,
              zone_name |-> NoZone, danger_level |-> 0,
              safety_rating |-> 0, geofence_alert |-> FALSE]

MinOf(a, b) == IF a <= b THEN a ELSE b
MaxOf(a, b) == IF a >= b THEN a ELSE b

\* main.py calculate_anomaly_score, in tenths.  speed is a number here.
calculate_anomaly_score(speed, geofence) ==
    LET bySpeed == IF speed > 80 THEN 9
                   ELSE IF speed > 60 THEN 6
                   ELSE IF speed > 40 THEN 3
                   ELSE IF speed = 0 THEN 2
                   ELSE 0
        byZone  == IF geofence.in_restricted_zone THEN 8
                   ELSE IF geofence.in_unknown_area THEN 1
                   ELSE 0
    IN  MinOf(bySpeed + byZone, 10)

\* calculate_safety_score without the final max(0, min(100, ...)).
calculate_safety_score_unclamped(speed, geofence, anomaly_score) ==
    LET afterZone == IF geofence.in_restricted_zone
                     THEN 100 - geofence.danger_level * 15
                     ELSE IF geofence.in_safe_zone
                     THEN 100 + (geofence.safety_rating - 3) * 5
                     ELSE 100
        afterSpeed == IF speed > 80 THEN afterZone - 40
                      ELSE IF speed > 60 THEN afterZone - 25
                      ELSE IF speed > 40 THEN afterZone - 15
                      ELSE afterZone
    IN  afterSpeed - anomaly_score * 3

\* main.py calculate_safety_score.  int(anomaly_score * 30) is 3 per tenth
\* for every value calculate_anomaly_score returns (the float products
\* 0.1*30 .. 1.0*30 all truncate to the exact multiple).
calculate_safety_score(speed, geofence, anomaly_score) ==
    LET afterZone == IF geofence.in_restricted_zone
                     THEN 100 - geofence.danger_level * 15
                     ELSE IF geofence.in_safe_zone
                     THEN 100 + (geofence.safety_rating - 3) * 5
                     ELSE 100
        afterSpeed == IF speed > 80 THEN afterZone - 40
                      ELSE IF speed > 60 THEN afterZone - 25
                      ELSE IF speed > 40 THEN afterZone - 15
                      ELSE afterZone
        base_score == afterSpeed - anomaly_score * 3
    IN  MaxOf(0, MinOf(100, base_score))

\* main.py:322-327
Severity(safety_score) ==
    IF safety_score >= 80 THEN "SAFE"
    ELSE IF safety_score >= 60 THEN "WARNING"
    ELSE "CRITICAL"

\* main.py assess_safety
assess_safety(latitude, longitude, speed) ==
    LET geofence_result == check_geofence(latitude, longitude)
        anomaly_score   == calculate_anomaly_score(speed, geofence_result)
        safety_score    == calculate_safety_score(speed, geofence_result, anomaly_score)
    IN  [safety_score |-> safety_score,
         anomaly_score |-> anomaly_score,
         severity |-> Severity(safety_score),
         geofence_alert |-> geofence_result.geofence_alert,
         zone_info |-> geofence_result]

NoAssessment ==
    [safety_score |-> -1, anomaly_score |-> 0, severity |-> "NONE",
     geofence_alert |-> FALSE,
     zone_info |-> [in_restricted_zone |-> FALSE, in_safe_zone |-> FALSE,
                    in_unknown_area |-> FALSE, zone_name |-> NoZone,
                    danger_level |-> 0, safety_rating |-> 0, geofence_alert |-> FALSE]]

Response(op, status, tourist_id, location_id, alert_id, alert_generated, assessment) ==
    [op |-> op, status |-> status, tourist_id |-> tourist_id,
     location_id |-> location_id, alert_id |-> alert_id,
     alert_generated |-> alert_generated, assessment |-> assessment]

NoResponse == Response("none", 0, 0, 0, 0, FALSE, NoAssessment)

Exists(tourist_id) == tourist_id \in DOMAIN tourists

SetScore(tourist_id, score) ==
    [tourists EXCEPT ![tourist_id].safety_score = score]

(***************************************************************************)
(* The fusion scorer (ai_ml SafetyScorer).  Scores are kept in hundredths  *)
(* of a point, a prediction's score and confidence in tenths; the values   *)
(* used (0, 0.5, 1.0) and their products are exact in binary floating      *)
(* point.                                                                  *)
(***************************************************************************)
critical_threshold == 5000
warning_threshold == 8000
panic_penalty == -4000
restricted_zone_penalty == -3000
risky_zone_penalty == -2000
safe_hour_bonus == 1000

\* Details of the geofence prediction handed to the scorer; "absent" is a
\* prediction of None (the geofence model raised).
GeofenceVerdicts == {"absent", "sos", "restricted", "risky", "safe", "unknown"}

Prediction(present, score, confidence) ==
    [present |-> present, score |-> score, confidence |-> confidence]

NoPrediction == Prediction(FALSE, 0, 0)

\* IsolationForestDetector.predict returns score 0.5 with confidence 0.0
\* while the detector is not trained.
UntrainedPrediction == Prediction(TRUE, 5, 0)

AnomalyPredictions ==
    {NoPrediction, UntrainedPrediction, Prediction(TRUE, 0, 10), Prediction(TRUE, 5, 10),
     Prediction(TRUE, 5, 5)}

TemporalPredictions ==
    {NoPrediction, Prediction(TRUE, 0, 10), Prediction(TRUE, 5, 10)}

NoContext ==
    [present |-> FALSE, panic_signal |-> FALSE, emergency_contact_triggered |-> FALSE,
     safe_duration_hours |-> 0, manual_risk_level |-> ""]

Contexts ==
    {NoContext} \cup
    [present : {TRUE}, panic_signal : BOOLEAN, emergency_contact_triggered : BOOLEAN,
     safe_duration_hours : 0..MaxSafeHours, manual_risk_level : {"", "medium", "high"}]

\* safety_scorer._apply_geofence_scoring
apply_geofence_scoring(current_score, details) ==
    IF details = "sos" THEN 0
    ELSE IF details = "restricted" THEN current_score + restricted_zone_penalty
    ELSE IF details = "risky" THEN current_score + risky_zone_penalty
    ELSE IF details = "safe" THEN current_score + 500
    ELSE current_score

\* safety_scorer._apply_anomaly_scoring: (1.0 - score) * 30.0 * confidence
apply_anomaly_scoring(current_score, prediction) ==
    current_score - (10 - prediction.score) * 30 * prediction.confidence

\* safety_scorer._apply_temporal_scoring: (1.0 - score) * 25.0 * confidence
apply_temporal_scoring(current_score, prediction) ==
    current_score - (10 - prediction.score) * 25 * prediction.confidence

\* safety_scorer._apply_context_scoring
apply_context_scoring(current_score, context) ==
    LET afterPanic   == IF context.panic_signal
                        THEN current_score + panic_penalty ELSE current_score
        afterContact == IF context.emergency_contact_triggered
                        THEN afterPanic - 2000 ELSE afterPanic
        afterSafe    == IF context.safe_duration_hours >= 1
                        THEN afterContact
                             + MinOf(context.safe_duration_hours * safe_hour_bonus, 2000)
                        ELSE afterContact
    IN  IF context.manual_risk_level = "high" THEN afterSafe - 3000
        ELSE IF context.manual_risk_level = "medium" THEN afterSafe - 1500
        ELSE afterSafe

\* safety_scorer._determine_risk_level
determine_risk_level(score) ==
    IF score < critical_threshold THEN "critical"
    ELSE IF score < warning_threshold THEN "warning"
    ELSE "safe"

\* safety_scorer.calculate_safety_score: the fused score before the risk
\* level is derived from it.
fuse_safety_score(geofence, anomaly, temporal, context) ==
    LET s1 == IF geofence # "absent" THEN apply_geofence_scoring(10000, geofence) ELSE 10000
        s2 == IF anomaly.present THEN apply_anomaly_scoring(s1, anomaly) ELSE s1
        s3 == IF temporal.present THEN apply_temporal_scoring(s2, temporal) ELSE s2
        s4 == IF context.present THEN apply_context_scoring(s3, context) ELSE s3
    IN  MaxOf(0, MinOf(10000, s4))

Fusion(call, geofence, anomaly, temporal, context, done, safety_score, risk_level) ==
    [call |-> call, geofence |-> geofence, anomaly |-> anomaly, temporal |-> temporal,
     context |-> context, done |-> done, safety_score |-> safety_score,
     risk_level |-> risk_level]

NoFusion == Fusion("none", "absent", NoPrediction, NoPrediction, NoContext, FALSE, 0, "")

\* The AI engine service before any training: initialize_models installs a
\* fresh, unfitted IsolationForest over whatever load_models read, and the
\* temporal thresholds are present when load_models found them on disk.
NoModels == [isolation_forest |-> FALSE, temporal_autoencoder |-> FALSE]

\* main.py ai_training_status as the module defines it.
InitialTrainingStatus ==
    [is_training |-> FALSE, last_training |-> None, next_training |-> None,
     training_count |-> 0, models_trained |-> <<>>]

\* The coroutine continuous_ai_training as startup_event creates it: at the
\* top of its loop.  now is the wall clock in minutes, wake_at the minute at
\* which the pending asyncio.sleep(60) returns; models_trained,
\* locations_count and alerts_count are the locals of the cycle, cycles
\* counts the passes of the while loop begun so far.
CreatedTrainingTask ==
    [pc |-> "start", now |-> 0, wake_at |-> 0, models_trained |-> <<>>,
     locations_count |-> 0, alerts_count |-> 0, cycles |-> 0]

(***************************************************************************)
(* The ai_ml pipeline (TouristSafetyPipeline): its two learned detectors   *)
(* and its per-tourist feature cache.  The pipeline is a plain object that *)
(* the router calls from async handlers without an await in between, so    *)
(* each call runs to completion before the next.  A fit is named by the    *)
(* number of the train_models call that made it; 0 names the state of an   *)
(* object as its constructor leaves it.                                    *)
(***************************************************************************)
sequence_length == 10
cache_max_size == 50

\* tourist_id of a pipeline request: a plain int, 0 included.
PipelineTouristIds == {0, 1}

\* Training data handed to train_models: the number of feature rows of each
\* tourist in it.
TrainingSets == {<<9>>, <<10>>, <<20>>, <<10, 10>>}

\* len(training_data)
RECURSIVE Samples(_)
Samples(training_data) ==
    IF training_data = <<>> THEN 0
    ELSE Head(training_data) + Samples(Tail(training_data))

\* LSTMAutoencoderDetector._prepare_sequences: the sliding windows of every
\* tourist with at least sequence_length rows.
RECURSIVE Sequences(_)
Sequences(training_data) ==
    IF training_data = <<>> THEN 0
    ELSE (IF Head(training_data) < sequence_length THEN 0
          ELSE Head(training_data) - sequence_length + 1)
         + Sequences(Tail(training_data))

\* A model object: the fit that built it and whether that fit ran to its end.
Model(fit, complete) == [fit |-> fit, complete |-> complete]

\* IsolationForestDetector.__init__
ConstructedAnomalyDetector ==
    [model |-> Model(0, FALSE), feature_scaler |-> 0, is_fitted |-> FALSE,
     is_trained |-> FALSE]

\* LSTMAutoencoderDetector.__init__ (self.model = None)
ConstructedTemporalDetector ==
    [model |-> Model(None, FALSE), scaler |-> 0, reconstruction_threshold |-> 0,
     is_trained |-> FALSE]

\* TouristSafetyPipeline.__init__
ConstructedPipeline ==
    [anomaly_detector |-> ConstructedAnomalyDetector,
     temporal_detector |-> ConstructedTemporalDetector,
     tourist_feature_cache |-> <<>>,
     fits |-> 0]

NoOutcome == [op |-> "none"]

min_data_points == 10

ModelTypes == <<"isolation_forest", "temporal_autoencoder">>

\* The engine when initialize has loaded and initialised the models and is
\* about to call force_retrain_all_models.  position is the index of the
\* model type a coroutine's for loop is at, fitting the fits in flight as
\* <<coroutine, model type>>, now the clock in minutes.
InitializingEngine ==
    [pc |-> [initialize |-> "force_retrain", training_loop |-> "ready"],
     position |-> [initialize |-> 1, training_loop |-> 1],
     current_time |-> [initialize |-> 0, training_loop |-> 0],
     running |-> "initialize",
     fitting |-> {},
     last_training_time |-> [isolation_forest |-> None, temporal_autoencoder |-> None],
     now |-> 0, wake_at |-> 0]


\* The initial state outside the tables and the engine.
InitAi ==
    /\ ai_training_status = InitialTrainingStatus
    /\ training_task = CreatedTrainingTask
    /\ pipeline = ConstructedPipeline
    /\ outcome = NoOutcome
    /\ engine = InitializingEngine
    /\ in_flight = {}

Init ==
    /\ tourists = <<>>
    /\ locations = <<>>
    /\ ai_assessments = <<>>
    /\ alerts = <<>>
    /\ resp = NoResponse
    /\ requests = 0
    /\ background_tasks = {}
    /\ models = NoModels
    /\ fused = NoFusion
    /\ InitAi

\* main.py register_tourist
register_tourist(contact) ==
    /\ Len(tourists) < MaxTourists
    /\ tourists' = Append(tourists, [id |-> Len(tourists) + 1, contact |-> contact,
                                     safety_score |-> 100, is_active |-> TRUE])
    /\ resp' = Response("registerTourist", 200, Len(tourists) + 1, 0, 0, FALSE, NoAssessment)
    /\ UNCHANGED <<locations, ai_assessments, alerts>>

\* An Alert row.  timestamp is the second in which the row was created.
\* webhook_attempts is not a column: it records how many outbound POSTs the
\* creating handler made for the alert.
Alert(id, tourist_id, type, severity, latitude, longitude, auto_generated) ==
    [id |-> id, tourist_id |-> tourist_id, type |-> type, severity |-> severity,
     latitude |-> latitude, longitude |-> longitude,
     auto_generated |-> auto_generated, status |-> "active", acknowledged |-> FALSE,
     timestamp |-> 0, webhook_attempts |-> 0, resolved_at |-> None]

\* datetime.now() of a request, to the second: the clock has not gone back
\* since the last alert was stored, and has advanced by a second or not.
Timestamps ==
    IF alerts = <<>> THEN {0}
    ELSE {alerts[Len(alerts)].timestamp, alerts[Len(alerts)].timestamp + 1}

\* main.py send_location
send_location(tourist_id, latitude, longitude, speed, timestamp) ==
    IF ~Exists(tourist_id)
    THEN /\ resp' = Response("sendLocation", 404, tourist_id, 0, 0, FALSE, NoAssessment)
         /\ UNCHANGED <<tourists, locations, ai_assessments, alerts>>
    ELSE
    /\ LET location_id == Len(locations) + 1
           location_data == [id |-> location_id, tourist_id |-> tourist_id,
                             latitude |-> latitude, longitude |-> longitude,
                             speed |-> speed]
       IN
       /\ locations' = Append(locations, location_data)
       /\ IF speed = None
          THEN \* calculate_anomaly_score compares None > 80: TypeError, caught
               \* by the handler's except clause after the Location insert.
               /\ resp' = Response("sendLocation", 500, tourist_id, location_id, 0,
                                   FALSE, NoAssessment)
               /\ UNCHANGED <<tourists, ai_assessments, alerts>>
          ELSE
          LET assessment == assess_safety(latitude, longitude, speed)
              needAlert  == assessment.severity \in {"WARNING", "CRITICAL"}
                            \/ assessment.geofence_alert
              alert_type == IF assessment.geofence_alert THEN "geofence" ELSE "anomaly"
              alert_id   == Len(alerts) + 1
          IN
          /\ ai_assessments' = Append(ai_assessments,
                 [tourist_id |-> tourist_id, location_id |-> location_id,
                  safety_score |-> assessment.safety_score,
                  severity |-> assessment.severity,
                  geofence_alert |-> assessment.geofence_alert,
                  anomaly_score |-> assessment.anomaly_score,
                  confidence_level |-> 85])
          /\ tourists' = SetScore(tourist_id, assessment.safety_score)
          /\ alerts' = IF needAlert
                       THEN Append(alerts,
                                [Alert(alert_id, tourist_id, alert_type,
                                       assessment.severity, latitude, longitude, TRUE)
                                     EXCEPT !.timestamp = timestamp])
                       ELSE alerts
          /\ resp' = Response("sendLocation", 200, tourist_id, location_id,
                              IF needAlert THEN alert_id ELSE 0, needAlert, assessment)

\* main.py press_sos
press_sos(tourist_id, latitude, longitude, timestamp) ==
    IF ~Exists(tourist_id)
    THEN /\ resp' = Response("pressSOS", 404, tourist_id, 0, 0, FALSE, NoAssessment)
         /\ UNCHANGED <<tourists, locations, ai_assessments, alerts>>
    ELSE
    /\ alerts' = Append(alerts,
           [Alert(Len(alerts) + 1, tourist_id, "sos", "CRITICAL", latitude, longitude, FALSE)
                EXCEPT !.timestamp = timestamp])
    /\ tourists' = SetScore(tourist_id, 0)
    /\ resp' = Response("pressSOS", 200, tourist_id, 0, Len(alerts) + 1, FALSE, NoAssessment)
    /\ UNCHANGED <<locations, ai_assessments>>

\* main.py file_efir
file_efir(tourist_id, latitude, longitude, timestamp) ==
    IF ~Exists(tourist_id)
    THEN /\ resp' = Response("fileEFIR", 404, tourist_id, 0, 0, FALSE, NoAssessment)
         /\ UNCHANGED <<tourists, locations, ai_assessments, alerts>>
    ELSE
    /\ alerts' = Append(alerts,
           [Alert(Len(alerts) + 1, tourist_id, "manual", "HIGH", latitude, longitude, FALSE)
                EXCEPT !.timestamp = timestamp])
    /\ tourists' = SetScore(tourist_id, MaxOf(20, tourists[tourist_id].safety_score - 30))
    /\ resp' = Response("fileEFIR", 200, tourist_id, 0, Len(alerts) + 1, FALSE, NoAssessment)
    /\ UNCHANGED <<locations, ai_assessments>>

\* Requests name a stored alert or the first id not yet given out.
AlertIds == 1..(Len(alerts) + 1)

\* resolve_alert as an upsert: an id that matches no row is stored as a new,
\* resolved alert.
resolve_alert_upsert(alert_id, now) ==
    /\ alerts' = IF alert_id \in DOMAIN alerts
                 THEN [alerts EXCEPT ![alert_id].status = "resolved",
                                     ![alert_id].resolved_at = now]
                 ELSE Append(alerts, [Alert(alert_id, 0, "manual", "LOW", 0, 0, FALSE)
                                         EXCEPT !.status = "resolved", !.resolved_at = now])
    /\ resp' = Response("resolveAlert", 200, 0, 0, alert_id, FALSE, NoAssessment)
    /\ UNCHANGED <<tourists, locations, ai_assessments>>

\* main.py resolve_alert: the update is made for whatever row has the id, and
\* an empty result is answered with 404.  resolved_at is datetime.now() of
\* the request, kept as the ordinal of the request: no two requests share it.
resolve_alert(alert_id, now) ==
    IF alert_id \notin DOMAIN alerts
    THEN /\ resp' = Response("resolveAlert", 404, 0, 0, alert_id, FALSE, NoAssessment)
         /\ UNCHANGED <<tourists, locations, ai_assessments, alerts>>
    ELSE
    /\ alerts' = [alerts EXCEPT ![alert_id].status = "resolved",
                                ![alert_id].resolved_at = now]
    /\ resp' = Response("resolveAlert", 200, 0, 0, alert_id, FALSE, NoAssessment)
    /\ UNCHANGED <<tourists, locations, ai_assessments>>

\* One more request is accepted while the request budget lasts.
Accept ==
    /\ requests < MaxRequests
    /\ requests' = requests + 1

RegisterTourist ==
    /\ Accept
    /\ \E c \in Contacts : register_tourist(c)
    /\ UNCHANGED <<background_tasks, models, fused, aiVars>>
SendLocation ==
    /\ Accept
    /\ \E t \in TouristIds, p \in Points, s \in Speeds, ts \in Timestamps :
           send_location(t, p[1], p[2], s, ts)
    /\ UNCHANGED <<background_tasks, models, fused, aiVars>>
PressSOS ==
    /\ Accept
    /\ \E t \in TouristIds, p \in SosPoints, ts \in Timestamps :
           press_sos(t, p[1], p[2], ts)
    /\ UNCHANGED <<background_tasks, models, fused, aiVars>>
FileEFIR ==
    /\ Accept
    /\ \E t \in TouristIds, p \in SosPoints, ts \in Timestamps :
           file_efir(t, p[1], p[2], ts)
    /\ UNCHANGED <<background_tasks, models, fused, aiVars>>
ResolveAlert ==
    /\ Accept
    /\ \E a \in AlertIds : resolve_alert(a, requests + 1)
    /\ UNCHANGED <<background_tasks, models, fused, aiVars>>

Next ==
    \/ RegisterTourist
    \/ SendLocation
    \/ PressSOS
    \/ FileEFIR
    \/ ResolveAlert

Spec == Init /\ [][Next]_vars

(***************************************************************************)
(* The app package: endpoints of app/api and the alert endpoints, with the *)
(* AI engine service assessing locations in the background.  Handlers and  *)
(* engine coroutines are async functions over a synchronous database       *)
(* session, so each runs to completion on the event loop before the next.  *)
(***************************************************************************)
\* Request fields of the generic create-alert endpoint.
AppAlertTypes == {"panic", "manual"}
AppAlertSeverities == {"LOW", "CRITICAL"}

\* Outputs of the fitted detectors, in tenths.
AnomalyScores == {0, 5, 10}
TemporalRisks == {0, 4, 10}

\* ai_engine safety_thresholds: safe 80, warning 50.
EngineSeverity(safety_score) ==
    IF safety_score >= 80 THEN "SAFE"
    ELSE IF safety_score >= 50 THEN "WARNING"
    ELSE "CRITICAL"

LocationsOf(tourist_id) ==
    SelectSeq(locations, LAMBDA l : l.tourist_id = tourist_id)

\* ai_engine._point_in_polygon
point_in_polygon(lat, lon, coords) == InBoundingBox(coords, lat, lon)

\* ai_engine._assess_geofencing: the first active restricted zone that
\* contains the location.
assess_geofencing(location) ==
    LET rz == ActiveZones(restricted_zones)
        hits == {i \in DOMAIN rz :
                    point_in_polygon(location.latitude, location.longitude,
                                     rz[i].coordinates)}
    IN  IF hits = {}
        THEN [restricted_zone |-> FALSE, zone_name |-> NoZone, confidence |-> 10]
        ELSE [restricted_zone |-> TRUE, zone_name |-> rz[SetMin(hits)].name,
              confidence |-> 10]

\* ai_engine._assess_anomaly_detection: the possible results.  An unfitted
\* forest raises in predict and the except clause returns the zero result.
assess_anomaly_detection(tourist_id) ==
    IF ~models.isolation_forest \/ Len(LocationsOf(tourist_id)) < 3
    THEN {[anomaly_score |-> 0, confidence |-> 0]}
    ELSE {[anomaly_score |-> a, confidence |-> 8] : a \in AnomalyScores}

\* ai_engine._assess_temporal_patterns: the possible results.  The risk is
\* a sum of the factors 0.3, 0.2, 0.2 that the timestamps select.
assess_temporal_patterns(tourist_id) ==
    IF Len(LocationsOf(tourist_id)) < 5
    THEN {[risk_score |-> 0, confidence |-> 0]}
    ELSE {[risk_score |-> r, confidence |-> 7] : r \in {0, 2, 3, 4, 5, 7}}

\* int(anomaly_score * 25) and int(risk * 20) for scores in tenths.
anomaly_penalty(anomaly_score) == (anomaly_score * 25) \div 10
temporal_penalty(risk_score) == risk_score * 2

\* app/api/tourists.py register_tourist_endpoint
register_tourist_endpoint(contact) ==
    IF \E t \in Rows(tourists) : t.contact = contact
    THEN /\ resp' = Response("registerTourist", 400, 0, 0, 0, FALSE, NoAssessment)
         /\ UNCHANGED <<tourists, locations, ai_assessments, alerts, background_tasks>>
    ELSE
    /\ Len(tourists) < MaxTourists
    /\ tourists' = Append(tourists, [id |-> Len(tourists) + 1, contact |-> contact,
                                     safety_score |-> 100, is_active |-> TRUE])
    /\ resp' = Response("registerTourist", 201, Len(tourists) + 1, 0, 0, FALSE, NoAssessment)
    /\ UNCHANGED <<locations, ai_assessments, alerts, background_tasks>>

\* app/api/locations.py send_location_endpoint: stores the location and
\* queues engine.assess_tourist_safety as a background task.
send_location_endpoint(tourist_id, latitude, longitude, speed) ==
    IF ~Exists(tourist_id)
    THEN /\ resp' = Response("sendLocation", 404, tourist_id, 0, 0, FALSE, NoAssessment)
         /\ UNCHANGED <<tourists, locations, ai_assessments, alerts, background_tasks>>
    ELSE IF ~tourists[tourist_id].is_active
    THEN /\ resp' = Response("sendLocation", 400, tourist_id, 0, 0, FALSE, NoAssessment)
         /\ UNCHANGED <<tourists, locations, ai_assessments, alerts, background_tasks>>
    ELSE
    /\ locations' = Append(locations, [id |-> Len(locations) + 1, tourist_id |-> tourist_id,
                                       latitude |-> latitude, longitude |-> longitude,
                                       speed |-> speed])
    /\ background_tasks' = background_tasks \cup {<<tourist_id, Len(locations) + 1>>}
    /\ resp' = Response("sendLocation", 201, tourist_id, Len(locations) + 1, 0, FALSE,
                        NoAssessment)
    /\ UNCHANGED <<tourists, ai_assessments, alerts>>

\* ai_engine.assess_tourist_safety, run as a background task.  The entries
\* of alerts_triggered are returned to the caller and never stored.
assess_tourist_safety(tourist_id, location_id) ==
    LET location == locations[location_id]
        geofence_result == assess_geofencing(location)
    IN  \E anomaly_result \in assess_anomaly_detection(tourist_id),
           temporal_result \in assess_temporal_patterns(tourist_id) :
        LET raw == 100 - (IF geofence_result.restricted_zone THEN 30 ELSE 0)
                       - anomaly_penalty(anomaly_result.anomaly_score)
                       - temporal_penalty(temporal_result.risk_score)
            safety_score == MaxOf(0, MinOf(100, raw))
        IN  /\ ai_assessments' = Append(ai_assessments,
                   [tourist_id |-> tourist_id, location_id |-> location_id,
                    safety_score |-> safety_score,
                    severity |-> EngineSeverity(safety_score),
                    geofence_alert |-> geofence_result.restricted_zone,
                    anomaly_score |-> anomaly_result.anomaly_score,
                    anomaly_confidence |-> anomaly_result.confidence,
                    temporal_risk_score |-> temporal_result.risk_score,
                    confidence_level |-> ((geofence_result.confidence
                                           + anomaly_result.confidence
                                           + temporal_result.confidence) * 10) \div 3])
            /\ tourists' = SetScore(tourist_id, safety_score)
            /\ UNCHANGED <<locations, alerts, resp>>

\* SafetyService.check_location_safety: containment in an active restricted
\* zone.
check_location_safety(latitude, longitude) ==
    [in_restricted_zone |-> InSomeActiveZone(restricted_zones, latitude, longitude)]

\* ai_engine.predict_anomaly: the possible (score, confidence) results.  The
\* unfitted forest raises in decision_function: (0.0, 0.1).
predict_anomaly(tourist_id) ==
    IF ~models.isolation_forest
    THEN {[score |-> 0, confidence |-> 1]}
    ELSE {[score |-> a, confidence |-> 8] : a \in AnomalyScores}

\* ai_engine.predict_temporal_risk: the possible (risk, confidence) results.
predict_temporal_risk(tourist_id) ==
    IF ~models.temporal_autoencoder
    THEN {[score |-> 0, confidence |-> 5]}
    ELSE IF Len(LocationsOf(tourist_id)) < 3
    THEN {[score |-> 0, confidence |-> 3]}
    ELSE {[score |-> r, confidence |-> 7] : r \in TemporalRisks}

\* ai_engine.create_ai_assessment on the tables st, with the detector
\* results anomaly and temporal.
create_ai_assessment(st, location, anomaly, temporal) ==
    LET geofence_check == check_location_safety(location.latitude, location.longitude)
        geofence_alert == geofence_check.in_restricted_zone
        base_score == 100 - (IF geofence_alert THEN 30 ELSE 0)
                          - anomaly_penalty(anomaly.score)
                          - temporal_penalty(temporal.score)
        safety_score == MaxOf(0, MinOf(100, base_score))
        severity == EngineSeverity(safety_score)
    IN  [ai_assessments |-> Append(st.ai_assessments,
             [tourist_id |-> location.tourist_id, location_id |-> location.id,
              safety_score |-> safety_score, severity |-> severity,
              geofence_alert |-> geofence_alert,
              anomaly_score |-> anomaly.score,
              anomaly_confidence |-> anomaly.confidence,
              temporal_risk_score |-> temporal.score,
              confidence_level |-> (anomaly.confidence + temporal.confidence) * 5]),
         tourists |-> [st.tourists EXCEPT ![location.tourist_id].safety_score = safety_score],
         alerts |-> IF severity = "CRITICAL"
                    THEN Append(st.alerts,
                             Alert(Len(st.alerts) + 1, location.tourist_id, "anomaly", "HIGH",
                                   location.latitude, location.longitude, TRUE))
                    ELSE st.alerts]

\* The tables after create_ai_assessment has run over the locations ids, in
\* order, for every combination of detector results.
RECURSIVE create_ai_assessments(_, _)
create_ai_assessments(sts, ids) ==
    IF ids = <<>> THEN sts
    ELSE create_ai_assessments(
             UNION {{create_ai_assessment(st, locations[Head(ids)], a, r) :
                        a \in predict_anomaly(locations[Head(ids)].tourist_id),
                        r \in predict_temporal_risk(locations[Head(ids)].tourist_id)} :
                    st \in sts},
             Tail(ids))

\* Locations without an assessment (the outer join of the query).
Unassessed ==
    SelectSeq([i \in DOMAIN locations |-> i],
              LAMBDA i : \A a \in Rows(ai_assessments) : a.location_id # i)

\* ai_engine.process_recent_locations: one pass of the assessment loop.
process_recent_locations ==
    \E st \in create_ai_assessments(
                  {[ai_assessments |-> ai_assessments, tourists |-> tourists,
                    alerts |-> alerts]}, Unassessed) :
        /\ ai_assessments' = st.ai_assessments
        /\ tourists' = st.tourists
        /\ alerts' = st.alerts
        /\ UNCHANGED <<locations, resp, background_tasks>>

\* alerts.py press_sos_endpoint with send_panic_to_police_dashboard: one
\* client.post; a 200 answer of the dashboard marks the alert acknowledged,
\* any other answer, a timeout or a connection error is logged.
press_sos_endpoint(tourist_id, latitude, longitude, delivered) ==
    IF ~Exists(tourist_id)
    THEN /\ resp' = Response("pressSOS", 404, tourist_id, 0, 0, FALSE, NoAssessment)
         /\ UNCHANGED <<tourists, locations, ai_assessments, alerts, background_tasks>>
    ELSE
    /\ alerts' = Append(alerts,
           [Alert(Len(alerts) + 1, tourist_id, "panic", "CRITICAL", latitude, longitude, FALSE)
                EXCEPT !.acknowledged = delivered, !.webhook_attempts = 1])
    /\ tourists' = SetScore(tourist_id, MaxOf(0, tourists[tourist_id].safety_score - 40))
    /\ resp' = Response("pressSOS", 201, tourist_id, 0, Len(alerts) + 1, FALSE, NoAssessment)
    /\ UNCHANGED <<locations, ai_assessments, background_tasks>>

\* alerts.py create_geofence_alert
create_geofence_alert(tourist_id, latitude, longitude) ==
    IF ~Exists(tourist_id)
    THEN /\ resp' = Response("geofenceAlert", 404, tourist_id, 0, 0, FALSE, NoAssessment)
         /\ UNCHANGED <<tourists, locations, ai_assessments, alerts, background_tasks>>
    ELSE
    /\ alerts' = Append(alerts, Alert(Len(alerts) + 1, tourist_id, "geofence", "HIGH",
                                      latitude, longitude, TRUE))
    /\ tourists' = SetScore(tourist_id, MaxOf(0, tourists[tourist_id].safety_score - 20))
    /\ resp' = Response("geofenceAlert", 201, tourist_id, 0, Len(alerts) + 1, FALSE,
                        NoAssessment)
    /\ UNCHANGED <<locations, ai_assessments, background_tasks>>

\* alerts.py create_alert: Alert(**alert_data.dict()), the request's type
\* and severity are stored as sent.
create_alert(tourist_id, type, severity, latitude, longitude) ==
    IF ~Exists(tourist_id)
    THEN /\ resp' = Response("createAlert", 404, tourist_id, 0, 0, FALSE, NoAssessment)
         /\ UNCHANGED <<tourists, locations, ai_assessments, alerts, background_tasks>>
    ELSE
    /\ alerts' = Append(alerts, Alert(Len(alerts) + 1, tourist_id, type, severity,
                                      latitude, longitude, FALSE))
    /\ resp' = Response("createAlert", 201, tourist_id, 0, Len(alerts) + 1, FALSE,
                        NoAssessment)
    /\ UNCHANGED <<tourists, locations, ai_assessments, background_tasks>>

RegisterTouristEndpoint ==
    /\ Accept
    /\ \E c \in Contacts : register_tourist_endpoint(c)
    /\ UNCHANGED <<models, fused, aiVars>>
SendLocationEndpoint ==
    /\ Accept
    /\ \E t \in TouristIds, p \in AlertPoints :
           send_location_endpoint(t, p[1], p[2], 30)
    /\ UNCHANGED <<models, fused, aiVars>>
AssessTouristSafety ==
    /\ \E task \in background_tasks :
           /\ assess_tourist_safety(task[1], task[2])
           /\ background_tasks' = background_tasks \ {task}
    /\ UNCHANGED <<requests, models, fused, aiVars>>
ProcessRecentLocations ==
    /\ process_recent_locations
    /\ UNCHANGED <<requests, models, fused, aiVars>>
PressSOSEndpoint ==
    /\ Accept
    /\ \E t \in TouristIds, p \in AlertPoints, delivered \in BOOLEAN :
           press_sos_endpoint(t, p[1], p[2], delivered)
    /\ UNCHANGED <<models, fused, aiVars>>
CreateGeofenceAlert ==
    /\ Accept
    /\ \E t \in TouristIds : create_geofence_alert(t, 1, 1)
    /\ UNCHANGED <<models, fused, aiVars>>
CreateAlert ==
    /\ Accept
    /\ \E t \in TouristIds, ty \in AppAlertTypes, sv \in AppAlertSeverities :
           create_alert(t, ty, sv, 0, 0)
    /\ UNCHANGED <<models, fused, aiVars>>

\* The engine starts on empty tables: nothing to train on, so the forest is
\* unfitted and the temporal thresholds are those found on disk, if any.
InitApp ==
    /\ tourists = <<>>
    /\ locations = <<>>
    /\ ai_assessments = <<>>
    /\ alerts = <<>>
    /\ resp = NoResponse
    /\ requests = 0
    /\ background_tasks = {}
    /\ models \in {[NoModels EXCEPT !.temporal_autoencoder = b] : b \in BOOLEAN}
    /\ fused = NoFusion
    /\ InitAi

NextApp ==
    \/ RegisterTouristEndpoint
    \/ SendLocationEndpoint
    \/ AssessTouristSafety
    \/ ProcessRecentLocations
    \/ PressSOSEndpoint
    \/ CreateGeofenceAlert
    \/ CreateAlert

SpecApp == InitApp /\ [][NextApp]_vars

(***************************************************************************)
(* The fusion scorer as a specification: the initial condition draws the   *)
(* call and its arguments, one step applies the function.                  *)
(***************************************************************************)
InitScorer ==
    /\ tourists = <<>>
    /\ locations = <<>>
    /\ ai_assessments = <<>>
    /\ alerts = <<>>
    /\ resp = NoResponse
    /\ requests = 0
    /\ background_tasks = {}
    /\ models = NoModels
    /\ \E call \in {"calculate_safety_score", "handle_sos_signal"},
          geofence \in GeofenceVerdicts, anomaly \in AnomalyPredictions,
          temporal \in TemporalPredictions, context \in Contexts :
           /\ call = "handle_sos_signal" =>
                  (geofence = "sos" /\ ~anomaly.present /\ ~temporal.present)
           /\ fused = Fusion(call, geofence, anomaly, temporal, context, FALSE, 0, "")
    /\ InitAi

\* pipeline.assess_tourist_safety step 4: safety_scorer.calculate_safety_score
\* on the predictions of the three models.
CalculateSafetyScore ==
    /\ fused.call = "calculate_safety_score" /\ ~fused.done
    /\ LET score == fuse_safety_score(fused.geofence, fused.anomaly, fused.temporal,
                                      fused.context)
       IN  fused' = [fused EXCEPT !.done = TRUE, !.safety_score = score,
                                  !.risk_level = determine_risk_level(score)]
    /\ UNCHANGED <<tourists, locations, ai_assessments, alerts, resp, requests,
                   background_tasks, models, aiVars>>

\* pipeline.handle_sos_signal: the assessment is built without the scorer.
HandleSosSignal ==
    /\ fused.call = "handle_sos_signal" /\ ~fused.done
    /\ fused' = [fused EXCEPT !.done = TRUE, !.safety_score = 0, !.risk_level = "critical"]
    /\ UNCHANGED <<tourists, locations, ai_assessments, alerts, resp, requests,
                   background_tasks, models, aiVars>>

NextScorer ==
    \/ CalculateSafetyScore
    \/ HandleSosSignal

SpecScorer == InitScorer /\ [][NextScorer]_vars

(***************************************************************************)
(* The training loop of main.py: the coroutine continuous_ai_training that *)
(* startup_event creates, and the endpoint that asks for a cycle.  The     *)
(* coroutine runs on the event loop of the request handlers, so it is      *)
(* interleaved with them at its awaits only.  The loop reads the sizes of  *)
(* the tables and the handlers never touch ai_training_status, so the      *)
(* tables are those the server finds in its database and stay as found.    *)
(***************************************************************************)
MaxMinutes == 2

\* n Location rows of tourist 1, as the database may hold at startup.
StoredLocations(n) ==
    [i \in 1..n |-> [id |-> i, tourist_id |-> 1, latitude |-> 0, longitude |-> 0,
                     speed |-> 30]]

\* n Alert rows of tourist 1, as the database may hold at startup.
StoredAlerts(n) ==
    [i \in 1..n |-> Alert(i, 1, "sos", "CRITICAL", 0, 0, FALSE)]

\* The answer of the training endpoints.
TrainingResponse(op, status, next_scheduled) ==
    [op |-> op, status |-> 200, message |-> status, next_scheduled |-> next_scheduled]

\* The end of a training cycle that did not raise.
FinishedCycle(status, models_trained) ==
    [status EXCEPT !.models_trained = models_trained,
                   !.training_count = @ + 1,
                   !.is_training = FALSE]

\* await asyncio.sleep(60) at the bottom of the loop.
SleepUntilNextCycle(task) ==
    [task EXCEPT !.pc = "sleep", !.wake_at = task.now + 1, !.models_trained = <<>>]

\* The loop is at its top, or its asyncio.sleep(60) is over: the next cycle
\* starts as soon as the coroutine is scheduled.
CycleDue ==
    \/ training_task.pc = "start"
    \/ training_task.pc = "sleep" /\ training_task.now >= training_task.wake_at

\* StartTrainingCycle without the try/except around the cycle: an exception
\* of the queries ends the coroutine.
StartTrainingCycle_uncaught ==
    /\ CycleDue
    /\ LET started == [ai_training_status EXCEPT
                           !.is_training = TRUE,
                           !.last_training = training_task.now,
                           !.next_training = training_task.now + 1]
           locations_count == MinOf(Len(locations), 1000)
           alerts_count == MinOf(Len(alerts), 500)
           counted == [training_task EXCEPT !.models_trained = <<>>,
                                            !.cycles = @ + 1,
                                            !.locations_count = locations_count,
                                            !.alerts_count = alerts_count]
       IN  \E raised \in BOOLEAN :
               IF raised
               THEN /\ ai_training_status' = started
                    /\ training_task' = [training_task EXCEPT !.pc = "ended",
                                                               !.cycles = @ + 1]
               ELSE IF locations_count > 10
               THEN /\ ai_training_status' = started
                    /\ training_task' = [counted EXCEPT !.pc = "isolation_forest"]
               ELSE IF alerts_count > 5
               THEN /\ ai_training_status' = started
                    /\ training_task' = [counted EXCEPT !.pc = "geofence_classifier"]
               ELSE /\ ai_training_status' = FinishedCycle(started, <<>>)
                    /\ training_task' = SleepUntilNextCycle(counted)
    /\ UNCHANGED <<tourists, locations, ai_assessments, alerts, resp, requests,
                   background_tasks, models, fused, pipelineVars, engineVars, routerVars>>

\* continuous_ai_training from the top of the loop to its first await: the
\* three queries either raise (the except clause) or return the row counts.
StartTrainingCycle ==
    /\ CycleDue
    /\ LET started == [ai_training_status EXCEPT
                           !.is_training = TRUE,
                           !.last_training = training_task.now,
                           !.next_training = training_task.now + 1]
           locations_count == MinOf(Len(locations), 1000)
           alerts_count == MinOf(Len(alerts), 500)
           counted == [training_task EXCEPT !.models_trained = <<>>,
                                            !.cycles = @ + 1,
                                            !.locations_count = locations_count,
                                            !.alerts_count = alerts_count]
       IN  \E raised \in BOOLEAN :
               IF raised
               THEN /\ ai_training_status' = [started EXCEPT !.is_training = FALSE]
                    /\ training_task' = SleepUntilNextCycle(
                                             [training_task EXCEPT !.cycles = @ + 1])
               ELSE IF locations_count > 10
               THEN /\ ai_training_status' = started
                    /\ training_task' = [counted EXCEPT !.pc = "isolation_forest"]
               ELSE IF alerts_count > 5
               THEN /\ ai_training_status' = started
                    /\ training_task' = [counted EXCEPT !.pc = "geofence_classifier"]
               ELSE /\ ai_training_status' = FinishedCycle(started, <<>>)
                    /\ training_task' = SleepUntilNextCycle(counted)
    /\ UNCHANGED <<tourists, locations, ai_assessments, alerts, resp, requests,
                   background_tasks, models, fused, pipelineVars, engineVars, routerVars>>

\* continuous_ai_training resumed after asyncio.sleep(0.5).
TrainIsolationForest ==
    /\ training_task.pc = "isolation_forest"
    /\ training_task' = [training_task EXCEPT
                             !.pc = "temporal_analysis",
                             !.models_trained = Append(@, "isolation_forest")]
    /\ UNCHANGED <<tourists, locations, ai_assessments, alerts, resp, requests,
                   background_tasks, models, fused, ai_training_status, pipelineVars, engineVars, routerVars>>

\* continuous_ai_training resumed after asyncio.sleep(0.3).
TrainTemporalAnalysis ==
    /\ training_task.pc = "temporal_analysis"
    /\ LET models_trained == Append(training_task.models_trained, "temporal_analysis")
       IN  IF training_task.alerts_count > 5
           THEN /\ training_task' = [training_task EXCEPT
                                         !.pc = "geofence_classifier",
                                         !.models_trained = models_trained]
                /\ UNCHANGED ai_training_status
           ELSE /\ ai_training_status' = FinishedCycle(ai_training_status, models_trained)
                /\ training_task' = SleepUntilNextCycle(training_task)
    /\ UNCHANGED <<tourists, locations, ai_assessments, alerts, resp, requests,
                   background_tasks, models, fused, pipelineVars, engineVars, routerVars>>

\* continuous_ai_training resumed after asyncio.sleep(0.2).
TrainGeofenceClassifier ==
    /\ training_task.pc = "geofence_classifier"
    /\ ai_training_status' =
           FinishedCycle(ai_training_status,
                         Append(training_task.models_trained, "geofence_classifier"))
    /\ training_task' = SleepUntilNextCycle(training_task)
    /\ UNCHANGED <<tourists, locations, ai_assessments, alerts, resp, requests,
                   background_tasks, models, fused, pipelineVars, engineVars, routerVars>>

\* A minute of wall-clock time goes by.
MinutePasses ==
    /\ training_task.now < MaxMinutes
    /\ training_task' = [training_task EXCEPT !.now = @ + 1]
    /\ UNCHANGED <<tourists, locations, ai_assessments, alerts, resp, requests,
                   background_tasks, models, fused, ai_training_status, pipelineVars, engineVars, routerVars>>

\* main.py force_ai_training
force_ai_training ==
    /\ resp' = IF ai_training_status.is_training
               THEN TrainingResponse("forceTraining", "busy", None)
               ELSE TrainingResponse("forceTraining", "initiated",
                                     ai_training_status.next_training)
    /\ UNCHANGED <<ai_training_status, training_task>>

ForceAiTraining ==
    /\ Accept
    /\ force_ai_training
    /\ UNCHANGED <<tourists, locations, ai_assessments, alerts,
                   background_tasks, models, fused, pipelineVars, engineVars, routerVars>>

\* The server starts on the database as it is: one tourist, no or eleven
\* locations, no or six alerts (the sizes on either side of the loop's
\* thresholds).
InitTraining ==
    /\ tourists = <<[id |-> 1, contact |-> "c1", safety_score |-> 100, is_active |-> TRUE]>>
    /\ locations \in {<<>>, StoredLocations(11)}
    /\ ai_assessments = <<>>
    /\ alerts \in {<<>>, StoredAlerts(6)}
    /\ resp = NoResponse
    /\ requests = 0
    /\ background_tasks = {}
    /\ models = NoModels
    /\ fused = NoFusion
    /\ InitAi

NextTraining ==
    \/ StartTrainingCycle
    \/ TrainIsolationForest
    \/ TrainTemporalAnalysis
    \/ TrainGeofenceClassifier
    \/ MinutePasses
    \/ ForceAiTraining

SpecTraining == InitTraining /\ [][NextTraining]_vars

\* The event loop runs a coroutine that is ready, and time goes by.
SpecTrainingLive ==
    /\ SpecTraining
    /\ WF_vars(StartTrainingCycle)
    /\ WF_vars(TrainIsolationForest)
    /\ WF_vars(TrainTemporalAnalysis)
    /\ WF_vars(TrainGeofenceClassifier)
    /\ WF_vars(MinutePasses)

(***************************************************************************)
(* The calls on the ai_ml pipeline.                                        *)
(***************************************************************************)
\* IsolationForestDetector.train: the detector after the call and whether
\* the call raised.  The scaler of the preprocessor is fitted in place, then
\* the forest is fitted in place; a fit that raises leaves the forest as it
\* was or partly rebuilt.
IsolationForestDetector_train(detector, fit, samples) ==
    IF samples < 10
    THEN {[detector |-> detector, raised |-> TRUE]}
    ELSE LET scaled == [detector EXCEPT !.feature_scaler = fit, !.is_fitted = TRUE]
         IN  {[detector |-> [scaled EXCEPT !.model = m], raised |-> TRUE] :
                  m \in {detector.model, Model(fit, FALSE)}}
             \cup
             {[detector |-> [scaled EXCEPT !.model = Model(fit, TRUE), !.is_trained = TRUE],
               raised |-> FALSE]}

\* LSTMAutoencoderDetector.train: the detector after the call and whether
\* the call raised: before the new network is created, while it is trained,
\* or not at all.
LSTMAutoencoderDetector_train(detector, fit, sequences) ==
    IF sequences < 10
    THEN {[detector |-> detector, raised |-> TRUE]}
    ELSE LET scaled == [detector EXCEPT !.scaler = fit]
         IN  {[detector |-> scaled, raised |-> TRUE],
              [detector |-> [scaled EXCEPT !.model = Model(fit, FALSE)], raised |-> TRUE],
              [detector |-> [scaled EXCEPT !.model = Model(fit, TRUE),
                                           !.reconstruction_threshold = fit,
                                           !.is_trained = TRUE],
               raised |-> FALSE]}

\* What a predict call read of its detector: nothing (the untrained
\* default), or a model, a scaler and a threshold.
Observation(scored, model, scaler, threshold) ==
    [scored |-> scored, model |-> model, scaler |-> scaler, threshold |-> threshold]

NotScored == Observation(FALSE, Model(None, FALSE), 0, 0)

\* IsolationForestDetector.predict
IsolationForestDetector_predict(detector) ==
    IF ~detector.is_trained THEN NotScored
    ELSE Observation(TRUE, detector.model,
                     IF detector.is_fitted THEN detector.feature_scaler ELSE 0, 0)

\* LSTMAutoencoderDetector.predict
LSTMAutoencoderDetector_predict(detector, features_sequence) ==
    IF ~detector.is_trained \/ detector.model.fit = None THEN NotScored
    ELSE IF Len(features_sequence) < sequence_length THEN NotScored
    ELSE Observation(TRUE, detector.model, detector.scaler,
                     detector.reconstruction_threshold)

\* pipeline.train_models
train_models(training_data) ==
    LET fit == pipeline.fits + 1
        anomaly == IF Samples(training_data) >= 10
                   THEN IsolationForestDetector_train(pipeline.anomaly_detector, fit,
                                                      Samples(training_data))
                   ELSE {[detector |-> pipeline.anomaly_detector, raised |-> TRUE]}
        temporal == IF Samples(training_data) >= 20
                    THEN LSTMAutoencoderDetector_train(pipeline.temporal_detector, fit,
                                                       Sequences(training_data))
                    ELSE {[detector |-> pipeline.temporal_detector, raised |-> TRUE]}
    IN  \E a \in anomaly, t \in temporal :
            /\ pipeline' = [pipeline EXCEPT !.anomaly_detector = a.detector,
                                            !.temporal_detector = t.detector,
                                            !.fits = fit]
            /\ outcome' = [op |-> "train_models", anomaly_error |-> a.raised,
                           temporal_error |-> t.raised]

\* pipeline._update_feature_cache
update_feature_cache(cache, tourist_id, features) ==
    LET old == IF tourist_id \in DOMAIN cache THEN cache[tourist_id] ELSE <<>>
        new == Append(old, features)
        kept == IF Len(new) > cache_max_size
                THEN SubSeq(new, Len(new) - cache_max_size + 1, Len(new))
                ELSE new
    IN  [t \in DOMAIN cache \cup {tourist_id} |-> IF t = tourist_id THEN kept ELSE cache[t]]

\* pipeline.assess_tourist_safety: the features of the request are cached
\* and the two detectors predict.  The fusion of the predictions is the
\* scorer's (SpecScorer).
assess_tourist_safety_pipeline(tourist_id, features) ==
    LET cache == update_feature_cache(pipeline.tourist_feature_cache, tourist_id, features)
    IN  /\ pipeline' = [pipeline EXCEPT !.tourist_feature_cache = cache]
        /\ outcome' = [op |-> "assess_tourist_safety", tourist_id |-> tourist_id,
                       anomaly |-> IsolationForestDetector_predict(pipeline.anomaly_detector),
                       temporal |-> LSTMAutoencoderDetector_predict(
                                        pipeline.temporal_detector, cache[tourist_id])]

\* Python truth value of an Optional[int].
Truthy(x) == x # None /\ x # 0

\* pipeline.clear_cache
clear_cache(tourist_id) ==
    LET cache == pipeline.tourist_feature_cache
    IN  /\ pipeline' = [pipeline EXCEPT !.tourist_feature_cache =
                            IF Truthy(tourist_id)
                            THEN [t \in DOMAIN cache \ {tourist_id} |-> cache[t]]
                            ELSE <<>>]
        /\ outcome' = [op |-> "clear_cache", tourist_id |-> tourist_id]

TrainModels ==
    /\ Accept
    /\ \E training_data \in TrainingSets : train_models(training_data)
    /\ UNCHANGED <<tourists, locations, ai_assessments, alerts, resp,
                   background_tasks, models, fused, trainingVars, engineVars, routerVars>>
AssessTouristSafetyPipeline ==
    /\ Accept
    /\ \E t \in PipelineTouristIds : assess_tourist_safety_pipeline(t, requests + 1)
    /\ UNCHANGED <<tourists, locations, ai_assessments, alerts, resp,
                   background_tasks, models, fused, trainingVars, engineVars, routerVars>>
ClearCache ==
    /\ Accept
    /\ \E t \in PipelineTouristIds \cup {None} : clear_cache(t)
    /\ UNCHANGED <<tourists, locations, ai_assessments, alerts, resp,
                   background_tasks, models, fused, trainingVars, engineVars, routerVars>>

InitPipeline ==
    /\ tourists = <<>>
    /\ locations = <<>>
    /\ ai_assessments = <<>>
    /\ alerts = <<>>
    /\ resp = NoResponse
    /\ requests = 0
    /\ background_tasks = {}
    /\ models = NoModels
    /\ fused = NoFusion
    /\ InitAi

NextPipeline ==
    \/ TrainModels
    \/ AssessTouristSafetyPipeline
    \/ ClearCache

SpecPipeline == InitPipeline /\ [][NextPipeline]_vars

(***************************************************************************)
(* The training of the AI engine service: initialize retrains every model  *)
(* before it creates the loops, and continuous_training_loop retrains a    *)
(* model when its last training is more than retrain_interval old.  A fit  *)
(* is a synchronous call inside its coroutine; it is modelled by the step  *)
(* that begins it and the step that ends it, and engine.running names the  *)
(* coroutine that is between two suspension points and so holds the event  *)
(* loop.  The assessment loop and the request handlers (SpecApp) start no  *)
(* fit.  The tables are those the service finds in its database.           *)
(***************************************************************************)
\* len(df) of fetch_training_data: the isolation forest query outer-joins
\* each location with the alerts of its tourist on the same day, the temporal
\* query returns the locations (every stored row is within the cutoff).
RECURSIVE JoinedRows(_)
JoinedRows(n) ==
    IF n = 0 THEN 0
    ELSE LET matching == Cardinality({a \in DOMAIN alerts :
                             alerts[a].tourist_id = locations[n].tourist_id})
         IN  JoinedRows(n - 1) + (IF matching = 0 THEN 1 ELSE matching)

fetch_training_data(model_type) ==
    IF model_type = "isolation_forest" THEN JoinedRows(Len(locations)) ELSE Len(locations)

\* train_isolation_forest and train_temporal_model reach their fit: the frame
\* holds min_data_points rows, and for the temporal model some tourist has
\* five locations.
ReachesFit(model_type) ==
    /\ fetch_training_data(model_type) >= min_data_points
    /\ model_type = "temporal_autoencoder" =>
           \E t \in DOMAIN tourists :
               Cardinality({l \in DOMAIN locations : locations[l].tourist_id = tourists[t].id}) >= 5

\* seconds_since_training > retrain_interval: a model never trained is due,
\* and one trained at current_time t is due once the minute after t has
\* passed (the check itself follows the sleep of 60 seconds).
DueForRetraining(model_type, current_time) ==
    \/ engine.last_training_time[model_type] = None
    \/ current_time > engine.last_training_time[model_type]

\* The event loop runs coroutine c only between the suspension points of the
\* others, and the training loop exists once initialize has created it.
Runnable_preemptive(c) == TRUE

Runnable(c) ==
    /\ engine.running \in {"none", c}
    /\ c = "training_loop" => engine.pc["initialize"] = "done"

\* Coroutine c goes on to the next model type of its for loop, or leaves it.
NextModelType(e, c, after) ==
    IF e.position[c] < Len(ModelTypes)
    THEN [e EXCEPT !.position[c] = @ + 1]
    ELSE [e EXCEPT !.position[c] = 1, !.pc[c] = after]

\* Coroutine c enters the fit of the model type it is at.
BeginFit(c, model_type) ==
    engine' = [engine EXCEPT !.running = c, !.pc[c] = "fitting",
                             !.fitting = @ \cup {<<c, model_type>>}]

\* The fit of coroutine c ends: the new model is installed and saved, or the
\* fit raised, or the save raised after the model was installed; only a
\* success is recorded in last_training_time.
EndFit(c, model_type, loop_pc, after) ==
    \E result \in {"trained", "raised", "raised_saving"} :
        /\ models' = IF result = "raised" THEN models
                     ELSE [models EXCEPT ![model_type] = TRUE]
        /\ engine' = NextModelType(
               [engine EXCEPT !.pc[c] = loop_pc,
                              !.fitting = @ \ {<<c, model_type>>},
                              !.last_training_time[model_type] =
                                  IF result = "trained" THEN engine.current_time[c] ELSE @],
               c, after)

EngineFrame ==
    UNCHANGED <<tourists, locations, ai_assessments, alerts, resp, requests,
                background_tasks, fused, trainingVars, pipelineVars, routerVars>>

\* force_retrain_all_models, one model type: fetch the data and train.
ForceRetrainModel ==
    LET c == "initialize"
        model_type == ModelTypes[engine.position[c]]
    IN  /\ engine.pc[c] = "force_retrain"
        /\ Runnable(c)
        /\ IF ReachesFit(model_type)
           THEN BeginFit(c, model_type)
           ELSE engine' = NextModelType([engine EXCEPT !.running = c], c, "create_tasks")
        /\ UNCHANGED models
        /\ EngineFrame

ForceRetrainFitEnds ==
    LET c == "initialize"
        model_type == ModelTypes[engine.position[c]]
    IN  /\ engine.pc[c] = "fitting"
        /\ Runnable(c)
        /\ EndFit(c, model_type, "force_retrain", "create_tasks")
        /\ EngineFrame

\* initialize creates the loops and returns.
CreateTasks ==
    /\ engine.pc["initialize"] = "create_tasks"
    /\ Runnable("initialize")
    /\ engine' = [engine EXCEPT !.pc["initialize"] = "done", !.running = "none"]
    /\ UNCHANGED models
    /\ EngineFrame

\* check_and_retrain_models, one model type; current_time is read when the
\* check begins.
CheckAndRetrainModel ==
    LET c == "training_loop"
        model_type == ModelTypes[engine.position[c]]
        current_time == IF engine.position[c] = 1 THEN engine.now ELSE engine.current_time[c]
        e == [engine EXCEPT !.running = c, !.current_time[c] = current_time]
    IN  /\ engine.pc[c] = "ready"
        /\ Runnable(c)
        /\ IF DueForRetraining(model_type, current_time) /\ ReachesFit(model_type)
           THEN engine' = [e EXCEPT !.pc[c] = "fitting",
                                    !.fitting = @ \cup {<<c, model_type>>}]
           ELSE engine' = NextModelType(e, c, "checked")
        /\ UNCHANGED models
        /\ EngineFrame

RetrainFitEnds ==
    LET c == "training_loop"
        model_type == ModelTypes[engine.position[c]]
    IN  /\ engine.pc[c] = "fitting"
        /\ Runnable(c)
        /\ EndFit(c, model_type, "ready", "checked")
        /\ EngineFrame

\* continuous_training_loop: await asyncio.sleep(60) after a check.
TrainingLoopSleeps ==
    /\ engine.pc["training_loop"] = "checked"
    /\ Runnable("training_loop")
    /\ engine' = [engine EXCEPT !.pc["training_loop"] = "sleep", !.running = "none",
                                !.wake_at = engine.now + 1]
    /\ UNCHANGED models
    /\ EngineFrame

TrainingLoopWakes ==
    /\ engine.pc["training_loop"] = "sleep"
    /\ engine.now >= engine.wake_at
    /\ Runnable("training_loop")
    /\ engine' = [engine EXCEPT !.pc["training_loop"] = "ready"]
    /\ UNCHANGED models
    /\ EngineFrame

\* A minute passes, whatever the coroutines are doing.
EngineMinutePasses ==
    /\ engine.now < MaxMinutes
    /\ engine' = [engine EXCEPT !.now = @ + 1]
    /\ UNCHANGED models
    /\ EngineFrame

\* The service starts on the database as it is: one tourist with no, five or
\* eleven locations and no or two alerts, the temporal thresholds read from
\* disk or not.
InitEngine ==
    /\ tourists = <<[id |-> 1, contact |-> "c1", safety_score |-> 100, is_active |-> TRUE]>>
    /\ locations \in {<<>>, StoredLocations(5), StoredLocations(11)}
    /\ ai_assessments = <<>>
    /\ alerts \in {<<>>, StoredAlerts(2)}
    /\ resp = NoResponse
    /\ requests = 0
    /\ background_tasks = {}
    /\ models \in {[NoModels EXCEPT !.temporal_autoencoder = b] : b \in BOOLEAN}
    /\ fused = NoFusion
    /\ InitAi

NextEngine ==
    \/ ForceRetrainModel
    \/ ForceRetrainFitEnds
    \/ CreateTasks
    \/ CheckAndRetrainModel
    \/ RetrainFitEnds
    \/ TrainingLoopSleeps
    \/ TrainingLoopWakes
    \/ EngineMinutePasses

SpecEngine == InitEngine /\ [][NextEngine]_vars

(***************************************************************************)
(* Registration in the routers package.  register_tourist is a plain def:  *)
(* the server runs each request on a worker thread, so the query for an    *)
(* existing contact and the insert of one request are two steps between    *)
(* which other requests run.  models.py puts no unique constraint on the   *)
(* contact column.                                                         *)
(***************************************************************************)
\* A request arrives and is given a thread.
ReceiveRegistration ==
    /\ Accept
    /\ \E contact \in Contacts :
           in_flight' = in_flight \cup {[id |-> requests + 1, contact |-> contact,
                                         pc |-> "query"]}
    /\ UNCHANGED <<tourists, locations, ai_assessments, alerts, resp,
                   background_tasks, models, fused, trainingVars, pipelineVars, engineVars>>

\* db.query(Tourist).filter(Tourist.contact == tourist.contact).first(): a
\* row found answers 400, none found lets the request go on to the insert.
QueryExistingTourist ==
    \E r \in in_flight :
        /\ r.pc = "query"
        /\ IF \E t \in Rows(tourists) : t.contact = r.contact
           THEN /\ in_flight' = in_flight \ {r}
                /\ resp' = Response("registerTourist", 400, 0, 0, 0, FALSE, NoAssessment)
           ELSE /\ in_flight' = (in_flight \ {r}) \cup {[r EXCEPT !.pc = "insert"]}
                /\ UNCHANGED resp
        /\ UNCHANGED <<tourists, locations, ai_assessments, alerts, requests,
                       background_tasks, models, fused, trainingVars, pipelineVars, engineVars>>

\* db.add(db_tourist); db.commit(): the row is stored and returned.
InsertTourist ==
    \E r \in in_flight :
        /\ r.pc = "insert"
        /\ Len(tourists) < MaxTourists
        /\ tourists' = Append(tourists, [id |-> Len(tourists) + 1, contact |-> r.contact,
                                         safety_score |-> 100, is_active |-> TRUE])
        /\ in_flight' = in_flight \ {r}
        /\ resp' = Response("registerTourist", 201, Len(tourists) + 1, 0, 0, FALSE, NoAssessment)
        /\ UNCHANGED <<locations, ai_assessments, alerts, requests,
                       background_tasks, models, fused, trainingVars, pipelineVars, engineVars>>

InitRouters == Init

NextRouters ==
    \/ ReceiveRegistration
    \/ QueryExistingTourist
    \/ InsertTourist

SpecRouters == InitRouters /\ [][NextRouters]_vars

(***************************************************************************)
(* Properties.                                                             *)
(***************************************************************************)
\* The assessments of one tourist, oldest first.
AssessmentsOf(tourist_id) ==
    SelectSeq(ai_assessments, LAMBDA a : a.tourist_id = tourist_id)

\* C1: every persisted Assessment and every Tourist row has a safety_score
\* between 0 and 100.
C1_ScoreBounded ==
    /\ \A a \in Rows(ai_assessments) : 0 <= a.safety_score /\ a.safety_score <= 100
    /\ \A t \in Rows(tourists) : 0 <= t.safety_score /\ t.safety_score <= 100

\* An update in the safe zone (raw score 110) and an update in the danger-5
\* zone at high speed (raw score below 0) have both been assessed.
C1_Witness ==
    /\ \E a \in Rows(ai_assessments) :
           /\ a.safety_score = 100
           /\ locations[a.location_id].latitude = 0
           /\ locations[a.location_id].longitude = 0
    /\ \E a \in Rows(ai_assessments) :
           /\ a.safety_score = 0
           /\ locations[a.location_id].speed = 90

\* C2: the severity band of every Assessment matches its score with the
\* bands SAFE >= 80, WARNING 50..79, CRITICAL < 50.
C2_SeverityBand ==
    \A a \in Rows(ai_assessments) :
        /\ a.severity = "SAFE" <=> a.safety_score >= 80
        /\ a.severity = "WARNING" <=> (50 <= a.safety_score /\ a.safety_score < 80)
        /\ a.severity = "CRITICAL" <=> a.safety_score < 50

\* C3: whenever the SOS signal is set in the input of the fusion scorer, the
\* resulting score is exactly 0 and the risk level is critical, whatever the
\* anomaly and temporal predictions and the additional context are.
C3_SosDominance ==
    (fused.done /\ fused.geofence = "sos") =>
        (fused.safety_score = 0 /\ fused.risk_level = "critical")

\* C4: a Tourist's safety_score is the score of its most recent Assessment,
\* or 100 when it has none.
C4_ScoreIsLatestAssessment ==
    \A t \in DOMAIN tourists :
        LET mine == AssessmentsOf(t)
        IN  tourists[t].safety_score =
                IF Len(mine) = 0 THEN 100 ELSE mine[Len(mine)].safety_score

\* C5: every Alert of type panic or sos is stored with severity CRITICAL.
C5_PanicAlertCritical ==
    \A a \in Rows(alerts) : a.type \in {"panic", "sos"} => a.severity = "CRITICAL"

\* C6: a pressSOS request answered with success leaves the tourist's
\* safety_score at 0.
C6_ScoreZeroAfterSOS ==
    [][(requests' = requests + 1 /\ resp'.op = "pressSOS" /\ resp'.status \in {200, 201})
          => tourists'[resp'.tourist_id].safety_score = 0]_vars

\* The assessments a step adds.
NewAssessments ==
    {ai_assessments'[i] : i \in (DOMAIN ai_assessments') \ (DOMAIN ai_assessments)}

\* The alerts a step adds.
NewAlerts ==
    {alerts'[i] : i \in (DOMAIN alerts') \ (DOMAIN alerts)}

\* The new alerts raised for the location of an assessment.
NewAlertsFor(a) ==
    {al \in NewAlerts :
        /\ al.tourist_id = a.tourist_id
        /\ al.latitude = locations'[a.location_id].latitude
        /\ al.longitude = locations'[a.location_id].longitude}

\* C7: an assessment of a location inside an active restricted zone has
\* geofence_alert set, and the step that stores it stores a geofence Alert
\* for that location.
C7_GeofenceDominance ==
    [][\A a \in NewAssessments :
          InSomeActiveZone(restricted_zones, locations'[a.location_id].latitude,
                           locations'[a.location_id].longitude)
          => /\ a.geofence_alert
             /\ \E al \in NewAlertsFor(a) : al.type = "geofence"]_vars

\* C8: a point inside an active restricted zone gets the restricted verdict
\* even when an active safe zone contains it too, and a point in no active
\* zone gets the unknown verdict without a geofence alert.
C8_LookupOrder ==
    (resp.op = "sendLocation" /\ resp.status = 200) =>
        LET loc == locations[resp.location_id]
            inR == InSomeActiveZone(restricted_zones, loc.latitude, loc.longitude)
            inS == InSomeActiveZone(safe_zones, loc.latitude, loc.longitude)
            z   == resp.assessment.zone_info
        IN  /\ inR => (z.in_restricted_zone /\ ~z.in_safe_zone /\ z.geofence_alert)
            /\ (~inR /\ ~inS) => (z.in_unknown_area /\ ~z.geofence_alert
                                    /\ ~resp.assessment.geofence_alert)

\* The answered update lies in a restricted zone and in a safe zone at once.
C8_Witness ==
    /\ resp.op = "sendLocation" /\ resp.status = 200
    /\ InSomeActiveZone(restricted_zones, locations[resp.location_id].latitude,
                        locations[resp.location_id].longitude)
    /\ InSomeActiveZone(safe_zones, locations[resp.location_id].latitude,
                        locations[resp.location_id].longitude)
    /\ resp.assessment.zone_info.in_restricted_zone

\* C9: the step that stores an Assessment stores an automatic Alert for its
\* location exactly when the severity is not SAFE or the geofence alert fired.
C9_AlertIffUnsafe ==
    [][\A a \in NewAssessments :
          (a.severity # "SAFE" \/ a.geofence_alert)
          <=> (\E al \in NewAlertsFor(a) : al.auto_generated)]_vars

\* C10: every automatically created GEOFENCE alert has severity HIGH.
C10_GeofenceAlertHigh ==
    \A a \in Rows(alerts) :
        (a.type = "geofence" /\ a.auto_generated) => a.severity = "HIGH"

\* C11: an answered location update that lies in no active zone, at a speed
\* of at most 40, has an Assessment with score 100 and severity SAFE, and no
\* alert is generated.
C11_NoZoneLowSpeedIsPerfect ==
    (resp.op = "sendLocation" /\ resp.status = 200) =>
        LET loc == locations[resp.location_id]
        IN  (/\ ~InSomeActiveZone(restricted_zones, loc.latitude, loc.longitude)
             /\ ~InSomeActiveZone(safe_zones, loc.latitude, loc.longitude)
             /\ loc.speed # None /\ loc.speed <= 40)
            => /\ resp.assessment.safety_score = 100
               /\ resp.assessment.severity = "SAFE"
               /\ ~resp.alert_generated

\* The composition the fusion is compared with: 100, minus danger_level * 15
\* in a restricted zone or plus (safety_rating - 3) * 5 in a safe zone, minus
\* floor(anomaly * 25), minus floor(temporal risk * 20), minus the largest
\* matching speed bracket, clamped once.  Detector scores are in tenths.
ReferenceScore(zone, anomaly_score, temporal_risk, speed) ==
    LET byZone  == IF zone.in_restricted_zone THEN 0 - zone.danger_level * 15
                   ELSE IF zone.in_safe_zone THEN (zone.safety_rating - 3) * 5
                   ELSE 0
        bySpeed == IF speed > 80 THEN 40
                   ELSE IF speed > 60 THEN 25
                   ELSE IF speed > 40 THEN 15
                   ELSE 0
        raw     == 100 + byZone - ((anomaly_score * 25) \div 10)
                       - ((temporal_risk * 20) \div 10) - bySpeed
    IN  MaxOf(0, MinOf(100, raw))

\* C12: the fused score of an answered location update equals the reference
\* composition of its zone verdict, anomaly score, temporal risk and speed.
C12_ScoreIsReferenceComposition ==
    (resp.op = "sendLocation" /\ resp.status = 200) =>
        resp.assessment.safety_score =
            ReferenceScore(resp.assessment.zone_info, resp.assessment.anomaly_score, 0,
                           locations[resp.location_id].speed)

\* The fused scores of the scorer's input with one of the three predictions
\* taken away: missing, or (for the learned detectors) with confidence 0.
ScoresWithOneDetectorAbsent ==
    { fuse_safety_score("absent", fused.anomaly, fused.temporal, fused.context),
      fuse_safety_score(fused.geofence, NoPrediction, fused.temporal, fused.context),
      fuse_safety_score(fused.geofence, [fused.anomaly EXCEPT !.confidence = 0],
                        fused.temporal, fused.context),
      fuse_safety_score(fused.geofence, fused.anomaly, NoPrediction, fused.context),
      fuse_safety_score(fused.geofence, fused.anomaly,
                        [fused.temporal EXCEPT !.confidence = 0], fused.context) }

\* C13: taking any one detector's prediction away never lowers the fused
\* score, and never turns a safe result into a critical one.
C13_DetectorAbsenceIsSafe ==
    (fused.done /\ fused.call = "calculate_safety_score") =>
        \A without \in ScoresWithOneDetectorAbsent :
            /\ without >= fused.safety_score
            /\ fused.risk_level = "safe" => determine_risk_level(without) # "critical"

\* C14: while the point-anomaly detector has never been fitted, every stored
\* Assessment carries the untrained default of the detector: anomaly score 0
\* with confidence 0.
C14_UntrainedDefault ==
    ~models.isolation_forest =>
        \A a \in Rows(ai_assessments) : a.anomaly_score = 0 /\ a.anomaly_confidence = 0

\* The assessments stored for one location, oldest first.
AssessmentsFor(location_id) ==
    SelectSeq(ai_assessments, LAMBDA a : a.location_id = location_id)

\* C15: when the processing of a location update fails after its Location
\* was stored, exactly one Assessment exists for that Location, and it is the
\* fallback one: severity WARNING with confidence 0.
C15_FallbackAssessment ==
    (resp.op = "sendLocation" /\ resp.status >= 500 /\ resp.location_id # 0) =>
        LET mine == AssessmentsFor(resp.location_id)
        IN  /\ Len(mine) = 1
            /\ mine[1].severity = "WARNING"
            /\ mine[1].confidence_level = 0

\* C16: a sendLocation request answered with a 5xx error has written
\* nothing: no Location, Assessment or Alert row, and no Tourist score.
C16_ErrorWritesNothing ==
    [][(requests' = requests + 1 /\ resp'.op = "sendLocation" /\ resp'.status >= 500)
          => UNCHANGED <<tourists, locations, ai_assessments, alerts>>]_vars

\* C17: for every stored panic or sos Alert the emergency POST was made
\* exactly once, and when the POST failed the request was still answered
\* with success and the Alert is in the table.
C17_WebhookOnce ==
    /\ \A a \in Rows(alerts) : a.type \in {"panic", "sos"} => a.webhook_attempts = 1
    /\ (resp.op = "pressSOS" /\ resp.status \in {200, 201}) =>
           /\ resp.alert_id \in DOMAIN alerts
           /\ alerts[resp.alert_id].type \in {"panic", "sos"}

\* C18: no two stored Alerts have the same tourist, the same kind, the same
\* second and the same coordinates.
C18_AlertDeduplication ==
    \A i, j \in DOMAIN alerts :
        (/\ alerts[i].tourist_id = alerts[j].tourist_id
         /\ alerts[i].type = alerts[j].type
         /\ alerts[i].timestamp = alerts[j].timestamp
         /\ alerts[i].latitude = alerts[j].latitude
         /\ alerts[i].longitude = alerts[j].longitude) => i = j

\* The tourist's score was written by assessments only: no alert endpoint
\* (pressSOS, geofence alert) has adjusted it.
OnlyAssessed(tourist_id) ==
    \A al \in Rows(alerts) : al.tourist_id = tourist_id => al.type = "anomaly"

\* C19: the Assessments of one tourist are stored in the order in which its
\* Locations were accepted, and once every Location is assessed the
\* Tourist's safety_score is the score of the Assessment of its latest
\* Location.
C19_PerTouristOrder ==
    /\ \A i, j \in DOMAIN ai_assessments :
           (i < j /\ ai_assessments[i].tourist_id = ai_assessments[j].tourist_id)
           => ai_assessments[i].location_id <= ai_assessments[j].location_id
    /\ (background_tasks = {} /\ Unassessed = <<>>) =>
           \A t \in DOMAIN tourists :
               (LocationsOf(t) # <<>> /\ OnlyAssessed(t)) =>
                   LET mine == LocationsOf(t)
                       last == mine[Len(mine)].id
                   IN  \E a \in Rows(ai_assessments) :
                           /\ a.location_id = last
                           /\ a.safety_score = tourists[t].safety_score

C21_ForceStartsCycle ==
    [][(requests' = requests + 1 /\ resp'.op = "forceTraining")
          => IF ai_training_status.is_training
             THEN UNCHANGED <<ai_training_status, training_task>>
             ELSE ai_training_status'.is_training \/ CycleDue']_vars

\* C25: the training loop never stops and never stays in training: whenever
\* is_training is set it is cleared again, the loop created at startup
\* begins its first cycle, and after every cycle, finished or raised, the
\* loop begins a further one when its sleep is over (as far as the clock of
\* the model runs).
C25_LoopNeverStops ==
    /\ ai_training_status.is_training ~> ~ai_training_status.is_training
    /\ (training_task.pc = "start") ~> (training_task.cycles = 1)
    /\ \A n \in 1..(MaxMinutes + 1) :
           (/\ training_task.pc = "sleep" /\ training_task.cycles = n
            /\ training_task.wake_at <= MaxMinutes)
           ~> (training_task.cycles = n + 1)

\* A cycle has raised (two cycles begun, at most one counted as finished)
\* and a further cycle is training.
C25_Witness ==
    /\ training_task.cycles >= 2
    /\ ai_training_status.training_count < training_task.cycles - 1
    /\ ai_training_status.is_training

\* C22: a fit that failed, denied for too little data or raised part-way,
\* leaves the detector as it was before the call: model, feature scaler,
\* threshold and trained flag.
C22_FailedFitKeepsHandle ==
    [][(requests' = requests + 1 /\ outcome'.op = "train_models")
          => /\ outcome'.anomaly_error
                    => pipeline'.anomaly_detector = pipeline.anomaly_detector
             /\ outcome'.temporal_error
                    => pipeline'.temporal_detector = pipeline.temporal_detector]_vars

\* The model, the scaler and the threshold a score call read are those of
\* one fit that ran to its end.
OfOneFit(observation, with_threshold) ==
    observation.scored =>
        /\ observation.model.complete
        /\ observation.scaler = observation.model.fit
        /\ with_threshold => observation.threshold = observation.model.fit

\* C23: every score call reads the model, the scaler and the threshold of
\* one single fit, never a mixture of two fits and never a model whose fit
\* did not run to its end.
C23_NoPartialSwap ==
    outcome.op = "assess_tourist_safety" =>
        /\ OfOneFit(outcome.anomaly, FALSE)
        /\ OfOneFit(outcome.temporal, TRUE)

\* C27: clear_cache with a tourist id removes that tourist's entry and
\* leaves every other entry as it was, for every id including 0;
\* clear_cache without an id empties the cache.
C27_ClearCacheFrame ==
    [][(requests' = requests + 1 /\ outcome'.op = "clear_cache")
          => LET before == pipeline.tourist_feature_cache
                 after  == pipeline'.tourist_feature_cache
                 t      == outcome'.tourist_id
             IN  IF t = None
                 THEN DOMAIN after = {}
                 ELSE /\ DOMAIN after = (DOMAIN before) \ {t}
                      /\ \A u \in DOMAIN after : after[u] = before[u]]_vars

NamesUnknownId ==
    /\ requests' = requests + 1
    /\ \/ /\ resp'.op \in {"sendLocation", "pressSOS", "fileEFIR"}
          /\ \A t \in Rows(tourists) : t.id # resp'.tourist_id
       \/ /\ resp'.op = "resolveAlert"
          /\ \A a \in Rows(alerts) : a.id # resp'.alert_id

\* C26: sendLocation, pressSOS and fileEFIR for an unknown tourist, and
\* resolveAlert for an unknown alert, are answered with NotFound (404) and
\* leave the four tables unchanged.
C26_UnknownIdRejected ==
    [][NamesUnknownId
          => /\ resp'.status = 404
             /\ UNCHANGED <<tourists, locations, ai_assessments, alerts>>]_vars

\* resolveAlert was refused for the first id past the stored alerts, with
\* tourists and alerts in the tables.
C26_Witness ==
    /\ resp.status = 404
    /\ resp.op = "resolveAlert"
    /\ alerts # <<>>
    /\ tourists # <<>>
    /\ resp.alert_id = Len(alerts) + 1

\* C28: fileEFIR never raises the tourist's safety_score: the score after
\* the call is at most the score before it.
C28_EFIRNeverRaisesScore ==
    [][(requests' = requests + 1 /\ resp'.op = "fileEFIR" /\ resp'.status = 200)
          => tourists'[resp'.tourist_id].safety_score
                 <= tourists[resp'.tourist_id].safety_score]_vars

\* C29: once an alert is resolved, no later operation gives it another
\* status or overwrites its resolved_at.
C29_ResolvedIsTerminal ==
    [][\A a \in DOMAIN alerts :
          alerts[a].status = "resolved"
              => /\ alerts'[a].status = "resolved"
                 /\ alerts'[a].resolved_at = alerts[a].resolved_at]_vars

\* C30: no two tourists share a contact number.
C30_ContactUnique ==
    \A t, u \in DOMAIN tourists :
        tourists[t].contact = tourists[u].contact => t = u

====
